---- MODULE Spec2Model ----
(***************************************************************************)
(* Flight-delay insurance contract (src/src/lib.rs): policy lifecycle,     *)
(* liquidity-pool accounting and batch flight resolution.                  *)
(*                                                                         *)
(* Instance storage is modelled key by key (DataKey); a key that was never *)
(* set is absent from `keys` (Admin, UsdcToken, LiquidityPool,             *)
(* PolicyCounter, ActivePolicies), from DOMAIN policies (Policy(id)) or    *)
(* from DOMAIN flight_to_policies (FlightToPolicies(flight_id)).           *)
(* The token ledger of the backing asset is `balance`.  A contract call    *)
(* that panics is rolled back by the host: none of its writes persist.     *)
(* Amounts are far below the i128 range, so i128 arithmetic is exact.      *)
(***************************************************************************)
EXTENDS Integers, Sequences, FiniteSets, TLC

\* ---- bounds of the model ----
MaxPolicies == 2
MaxTime == 3

\* ---- input domains ----
Contract == "contract"
AdminAddr == "admin"
Customers == {"c1", "c2"}
Addresses == {AdminAddr} \cup Customers
\* Who signs an administrative call: the administrator or somebody else.
Signers == {AdminAddr, "c1"}
Tokens == {"usdc"}
Flights == {"F1", "F2"}
Premiums == {0, 1}
Coverages == {0, 3}
Capitals == {0, 3}
Amounts == {0, 1}
FlightDates == {0, 1}
Resolutions ==
    {[kind |-> "OnTime", minutes |-> 0], [kind |-> "Cancelled", minutes |-> 0]}
    \cup {[kind |-> "Delayed", minutes |-> m] : m \in {59, 60, 180, 181}}
\* The token ledger at deployment: every holder, the contract included, has
\* been minted one unit.
InitialBalance == [p \in Addresses \cup {Contract} |-> 1]

VARIABLES keys, admin, usdc_token, liquidity_pool, policy_counter, policies,
          active_policies, flight_to_policies, balance, now, last, resolutions

vars == <<keys, admin, usdc_token, liquidity_pool, policy_counter, policies,
          active_policies, flight_to_policies, balance, now, last, resolutions>>

\* now: the ledger timestamp of the calls.
\* last: the most recent call: operation, outcome, returned value and, for a
\*   call that took effect, its arguments (a rejected call leaves its error
\*   kind only).
\* resolutions: per flight_id, how many resolve_flight calls have succeeded.

\* The persistent state a call works on: instance storage and token ledger.
Store ==
    [keys |-> keys, admin |-> admin, usdc_token |-> usdc_token,
     liquidity_pool |-> liquidity_pool, policy_counter |-> policy_counter,
     policies |-> policies, active_policies |-> active_policies,
     flight_to_policies |-> flight_to_policies, balance |-> balance]

Has(s, key) == key \in s.keys

\* get(&DataKey::LiquidityPool).unwrap_or(0)
get_liquidity_pool(s) == IF Has(s, "LiquidityPool") THEN s.liquidity_pool ELSE 0

\* get(&DataKey::PolicyCounter).unwrap_or(0)
get_total_policies(s) == IF Has(s, "PolicyCounter") THEN s.policy_counter ELSE 0

\* get(&DataKey::ActivePolicies).unwrap_or(Vec::new(&env))
get_active_policies(s) == IF Has(s, "ActivePolicies") THEN s.active_policies ELSE <<>>

\* get(&DataKey::FlightToPolicies(flight_id)).unwrap_or(Vec::new(&env))
get_policies_for_flight(s, flight_id) ==
    IF flight_id \in DOMAIN s.flight_to_policies
    THEN s.flight_to_policies[flight_id] ELSE <<>>

\* Outcome of a call body: result "ok" or the error kind of the panic, the
\* working state at that point, and the returned value.
Ok(s, ret) == [result |-> "ok", st |-> s, ret |-> ret]

PanicIgnored(s, kind) == [result |-> "ok", st |-> s, ret |-> 0]

Panic(s, kind) == [result |-> kind, st |-> s, ret |-> 0]

\* token_client.transfer(from, to, amount): the ledger after the move.
transfer(s, from, to, amount) ==
    LET debited == [s.balance EXCEPT ![from] = @ - amount]
    IN  [s EXCEPT !.balance = [debited EXCEPT ![to] = @ + amount]]

can_transfer_unchecked(s, from, amount) == TRUE

\* The token contract rejects a transfer the sender cannot cover.
can_transfer(s, from, amount) == s.balance[from] >= amount

require_auth_skipped(auth, address) == TRUE

\* address.require_auth(): the call carries the authorization of address.
require_auth(auth, address) == auth = address

\* ---- initialize ----
initialize_unguarded(s, a, token, initial_capital) ==
    Ok([s EXCEPT !.keys = @ \cup {"Admin", "UsdcToken", "LiquidityPool",
                                  "PolicyCounter", "ActivePolicies"},
                 !.admin = a,
                 !.usdc_token = token,
                 !.liquidity_pool = initial_capital,
                 !.policy_counter = 0,
                 !.active_policies = <<>>], 0)

initialize(s, a, token, initial_capital) ==
    IF Has(s, "Admin") THEN Panic(s, "AlreadyInitialized")
    ELSE Ok([s EXCEPT !.keys = @ \cup {"Admin", "UsdcToken", "LiquidityPool",
                                       "PolicyCounter", "ActivePolicies"},
                      !.admin = a,
                      !.usdc_token = token,
                      !.liquidity_pool = initial_capital,
                      !.policy_counter = 0,
                      !.active_policies = <<>>], 0)

\* ---- create_policy ----
new_pool_forgets_premium(current_pool, premium_amount) == current_pool

\* let new_pool = current_pool + premium_amount
new_pool_after_premium(current_pool, premium_amount) == current_pool + premium_amount

push_front(vec, x) == <<x>> \o vec

push_back(vec, x) == Append(vec, x)

flight_key_shared(flight_id) == "F1"

\* DataKey::FlightToPolicies(flight_id): the storage key of a flight's entry.
flight_key(flight_id) == flight_id

next_policy_id_stuck(s) == 1

next_policy_id_not_incremented(s) == get_total_policies(s)

\* let mut counter = get(&DataKey::PolicyCounter).unwrap_or(0); counter += 1
next_policy_id(s) == get_total_policies(s) + 1

flight_date_before_now(flight_date, t) == flight_date < t

\* if flight_date <= env.ledger().timestamp()
flight_date_not_future(flight_date, t) == flight_date <= t

create_policy(s, t, auth, customer, flight_id, flight_date, premium_amount, coverage_amount) ==
    IF ~require_auth(auth, customer) THEN Panic(s, "Unauthorized")
    ELSE IF premium_amount <= 0 \/ coverage_amount <= 0 THEN Panic(s, "InvalidAmount")
    ELSE IF flight_date_not_future(flight_date, t) THEN Panic(s, "InvalidSchedule")
    ELSE LET current_pool == get_liquidity_pool(s) IN
    IF current_pool < coverage_amount THEN Panic(s, "InsufficientLiquidity")
    ELSE IF ~Has(s, "UsdcToken") THEN Panic(s, "NotFound")
    ELSE IF ~can_transfer(s, customer, premium_amount) THEN Panic(s, "TransferFailed")
    ELSE LET s1 == transfer(s, customer, Contract, premium_amount)
             new_pool == new_pool_after_premium(current_pool, premium_amount)
             counter == next_policy_id(s1)
             new_policy == [id |-> counter, customer |-> customer,
                            flight_id |-> flight_id, flight_date |-> flight_date,
                            premium_amount |-> premium_amount,
                            coverage_amount |-> coverage_amount,
                            status |-> "Unresolved", payout_amount |-> 0]
             s2 == [s1 EXCEPT !.keys = @ \cup {"LiquidityPool", "PolicyCounter", "ActivePolicies"},
                              !.liquidity_pool = new_pool,
                              !.policies = [i \in DOMAIN @ \cup {counter} |->
                                              IF i = counter THEN new_policy ELSE @[i]],
                              !.policy_counter = counter,
                              !.active_policies = push_back(get_active_policies(s1), counter),
                              !.flight_to_policies =
                                  [f \in DOMAIN @ \cup {flight_key(flight_id)} |->
                                     IF f = flight_key(flight_id)
                                     THEN push_back(get_policies_for_flight(
                                                      s1, flight_key(flight_id)), counter)
                                     ELSE @[f]]]
         IN  Ok(s2, counter)

\* ---- resolve_flight ----
\* The match on the resolution: the status the policy takes.
resolved_status(resolution) == resolution.kind

compute_payout_late_half(policy, resolution) ==
    IF resolution.kind = "Cancelled" THEN policy.premium_amount
    ELSE IF resolution.kind = "OnTime" THEN 0
    ELSE IF resolution.minutes > 60 /\ resolution.minutes <= 180
         THEN policy.coverage_amount \div 2
    ELSE IF resolution.minutes > 180 THEN policy.coverage_amount
    ELSE 0

compute_payout_on_time_refund(policy, resolution) ==
    IF resolution.kind = "Cancelled" THEN policy.premium_amount
    ELSE IF resolution.kind = "OnTime" THEN policy.premium_amount
    ELSE IF resolution.minutes >= 60 /\ resolution.minutes <= 180
         THEN policy.coverage_amount \div 2
    ELSE IF resolution.minutes > 180 THEN policy.coverage_amount
    ELSE policy.premium_amount

\* The match on the resolution: the payout of one policy.
compute_payout(policy, resolution) ==
    IF resolution.kind = "Cancelled" THEN policy.premium_amount
    ELSE IF resolution.kind = "OnTime" THEN 0
    ELSE IF resolution.minutes >= 60 /\ resolution.minutes <= 180
         THEN policy.coverage_amount \div 2
    ELSE IF resolution.minutes > 180 THEN policy.coverage_amount
    ELSE 0

\* active_policies.iter().position(|x| x == policy_id): 0 when there is none.
position(vec, x) ==
    IF \E i \in 1..Len(vec) : vec[i] = x
    THEN CHOOSE i \in 1..Len(vec) : vec[i] = x /\ \A j \in 1..(i - 1) : vec[j] # x
    ELSE 0

\* active_policies.remove(pos)
remove(vec, pos) == SubSeq(vec, 1, pos - 1) \o SubSeq(vec, pos + 1, Len(vec))

remove_active_forgotten(s, policy_id) == s

\* Lines 188-192: drop policy_id from the active index when it is there.
remove_active(s, policy_id) ==
    LET active == get_active_policies(s)
        pos == position(active, policy_id)
    IN  IF pos # 0
        THEN [s EXCEPT !.keys = @ \cup {"ActivePolicies"},
                       !.active_policies = remove(active, pos)]
        ELSE s

pool_cannot_pay_at_limit(current_pool, payout) == current_pool <= payout

\* if current_pool < payout
pool_cannot_pay(current_pool, payout) == current_pool < payout

pool_debited_twice(current_pool, payout) == current_pool - payout - payout

pool_not_debited(current_pool, payout) == current_pool

\* current_pool -= payout
pool_after_payout(current_pool, payout) == current_pool - payout

\* The loop over policy_ids, from index i on, with the local current_pool.
RECURSIVE resolve_loop(_, _, _, _, _)
resolve_loop(s, current_pool, policy_ids, i, resolution) ==
    IF i > Len(policy_ids)
    THEN [result |-> "ok", st |-> s, current_pool |-> current_pool]
    ELSE LET policy_id == policy_ids[i] IN
    IF policy_id \notin DOMAIN s.policies
    THEN [result |-> "NotFound", st |-> s, current_pool |-> current_pool]
    ELSE LET policy == s.policies[policy_id] IN
    IF policy.status # "Unresolved"
    THEN resolve_loop(s, current_pool, policy_ids, i + 1, resolution)
    ELSE LET payout == compute_payout(policy, resolution) IN
    IF payout > 0 /\ pool_cannot_pay(current_pool, payout)
    THEN [result |-> "InsufficientPoolForPayout", st |-> s, current_pool |-> current_pool]
    ELSE IF payout > 0 /\ ~can_transfer(s, Contract, payout)
    THEN [result |-> "TransferFailed", st |-> s, current_pool |-> current_pool]
    ELSE LET s1 == IF payout > 0 THEN transfer(s, Contract, policy.customer, payout) ELSE s
             pool1 == IF payout > 0 THEN pool_after_payout(current_pool, payout)
                      ELSE current_pool
             settled == [policy EXCEPT !.status = resolved_status(resolution),
                                       !.payout_amount = IF payout > 0 THEN payout ELSE @]
             s2 == [s1 EXCEPT !.policies[policy_id] = settled]
             s3 == remove_active(s2, policy_id)
         IN  resolve_loop(s3, pool1, policy_ids, i + 1, resolution)

clear_flight_clears_all(index, flight_id) == << >>

clear_flight_keeps_entry(index, flight_id) == index

\* env.storage().instance().remove(&flight_key)
clear_flight(index, flight_id) == [f \in DOMAIN index \ {flight_id} |-> index[f]]

resolve_flight(s, auth, flight_id, resolution) ==
    IF ~Has(s, "Admin") THEN Panic(s, "NotFound")
    ELSE IF ~require_auth(auth, s.admin) THEN Panic(s, "Unauthorized")
    ELSE IF flight_key(flight_id) \notin DOMAIN s.flight_to_policies
         THEN Panic(s, "NoPoliciesForFlight")
    ELSE IF ~Has(s, "UsdcToken") THEN Panic(s, "NotFound")
    ELSE LET policy_ids == s.flight_to_policies[flight_key(flight_id)]
             loop == resolve_loop(s, get_liquidity_pool(s), policy_ids, 1, resolution)
         IN  IF loop.result # "ok" THEN Panic(loop.st, loop.result)
             ELSE Ok([loop.st EXCEPT
                        !.keys = @ \cup {"LiquidityPool"},
                        !.liquidity_pool = loop.current_pool,
                        !.flight_to_policies = clear_flight(@, flight_key(flight_id))], 0)

\* ---- deposit_to_pool ----
pool_set_to_deposit(current_pool, amount) == amount

\* let new_pool = current_pool + amount
pool_after_deposit(current_pool, amount) == current_pool + amount

deposit_to_pool(s, auth, amount) ==
    IF ~Has(s, "Admin") THEN Panic(s, "NotFound")
    ELSE IF ~require_auth(auth, s.admin) THEN Panic(s, "Unauthorized")
    ELSE IF amount <= 0 THEN Panic(s, "InvalidAmount")
    ELSE IF ~Has(s, "UsdcToken") THEN Panic(s, "NotFound")
    ELSE IF ~can_transfer(s, s.admin, amount) THEN Panic(s, "TransferFailed")
    ELSE LET s1 == transfer(s, s.admin, Contract, amount)
             new_pool == pool_after_deposit(get_liquidity_pool(s1), amount)
         IN  Ok([s1 EXCEPT !.keys = @ \cup {"LiquidityPool"},
                           !.liquidity_pool = new_pool], 0)

\* ---- withdraw_from_pool ----
\* The sum of coverage_amount over the active index (ids without a record
\* are passed over).
RECURSIVE total_exposure(_, _)
total_exposure(s, active) ==
    IF active = <<>> THEN 0
    ELSE (IF Head(active) \in DOMAIN s.policies
          THEN s.policies[Head(active)].coverage_amount ELSE 0)
         + total_exposure(s, Tail(active))

withdrawal_never_compromises(after_withdrawal, exposure) == FALSE

withdrawal_ignores_exposure(after_withdrawal, exposure) == after_withdrawal < 0

\* if after_withdrawal < total_exposure
withdrawal_compromises(after_withdrawal, exposure) == after_withdrawal < exposure

withdraw_from_pool(s, auth, amount) ==
    IF ~Has(s, "Admin") THEN Panic(s, "NotFound")
    ELSE IF ~require_auth(auth, s.admin) THEN Panic(s, "Unauthorized")
    ELSE IF amount <= 0 THEN Panic(s, "InvalidAmount")
    ELSE LET after_withdrawal == get_liquidity_pool(s) - amount
             exposure == total_exposure(s, get_active_policies(s)) IN
    IF withdrawal_compromises(after_withdrawal, exposure) THEN Panic(s, "InsufficientCoverage")
    ELSE IF ~Has(s, "UsdcToken") THEN Panic(s, "NotFound")
    ELSE IF ~can_transfer(s, Contract, amount) THEN Panic(s, "TransferFailed")
    ELSE LET s1 == transfer(s, Contract, s.admin, amount)
         IN  Ok([s1 EXCEPT !.keys = @ \cup {"LiquidityPool"},
                           !.liquidity_pool = after_withdrawal], 0)

\* ---- host: a panicking call leaves no trace ----
CommitPartial(s, r) == r.st

Commit(s, r) == IF r.result = "ok" THEN r.st ELSE s

Persist(s) ==
    /\ keys' = s.keys
    /\ admin' = s.admin
    /\ usdc_token' = s.usdc_token
    /\ liquidity_pool' = s.liquidity_pool
    /\ policy_counter' = s.policy_counter
    /\ policies' = s.policies
    /\ active_policies' = s.active_policies
    /\ flight_to_policies' = s.flight_to_policies
    /\ balance' = s.balance

NoArgs == [none |-> TRUE]

Call(op, r, args) ==
    [op |-> op, result |-> r.result, ret |-> r.ret,
     args |-> IF r.result = "ok" THEN args ELSE NoArgs]

Init ==
    /\ keys = {}
    /\ admin = "none"
    /\ usdc_token = "none"
    /\ liquidity_pool = 0
    /\ policy_counter = 0
    /\ policies = <<>>
    /\ active_policies = <<>>
    /\ flight_to_policies = <<>>
    /\ balance = InitialBalance
    /\ now = 0
    /\ last = Call("deploy", Ok(Store, 0), NoArgs)
    /\ resolutions = [f \in Flights |-> 0]

Initialize ==
    \E a \in {AdminAddr}, token \in Tokens, initial_capital \in Capitals :
      LET r == initialize(Store, a, token, initial_capital) IN
      /\ Persist(Commit(Store, r))
      /\ last' = Call("initialize", r, [admin |-> a, usdc_token |-> token,
                                         initial_capital |-> initial_capital])
      /\ UNCHANGED <<now, resolutions>>

CreatePolicy ==
    \E customer \in Customers :
    \E auth \in {customer, AdminAddr}, flight_id \in Flights,
       flight_date \in FlightDates, premium_amount \in Premiums,
       coverage_amount \in Coverages :
      LET r == create_policy(Store, now, auth, customer, flight_id, flight_date,
                             premium_amount, coverage_amount) IN
      /\ get_total_policies(Store) < MaxPolicies
      /\ Persist(Commit(Store, r))
      /\ last' = Call("create_policy", r,
                       [auth |-> auth, customer |-> customer, flight_id |-> flight_id,
                        flight_date |-> flight_date, premium_amount |-> premium_amount,
                        coverage_amount |-> coverage_amount])
      /\ UNCHANGED <<now, resolutions>>

\* One call of resolve_flight with the given signer and arguments.
ResolveFlightAs(auth, flight_id, resolution) ==
    \E r \in {resolve_flight(Store, auth, flight_id, resolution)} :
      /\ Persist(Commit(Store, r))
      /\ last' = Call("resolve_flight", r,
                       [auth |-> auth, flight_id |-> flight_id, resolution |-> resolution])
      /\ resolutions' = IF r.result = "ok"
                        THEN [resolutions EXCEPT ![flight_id] = @ + 1]
                        ELSE resolutions
      /\ UNCHANGED now

ResolveFlight ==
    \E auth \in Signers, flight_id \in Flights, resolution \in Resolutions :
      ResolveFlightAs(auth, flight_id, resolution)

DepositToPool ==
    \E auth \in Signers, amount \in Amounts :
      LET r == deposit_to_pool(Store, auth, amount) IN
      /\ Persist(Commit(Store, r))
      /\ last' = Call("deposit_to_pool", r, [auth |-> auth, amount |-> amount])
      /\ UNCHANGED <<now, resolutions>>

WithdrawFromPool ==
    \E auth \in Signers, amount \in Amounts :
      LET r == withdraw_from_pool(Store, auth, amount) IN
      /\ Persist(Commit(Store, r))
      /\ last' = Call("withdraw_from_pool", r, [auth |-> auth, amount |-> amount])
      /\ UNCHANGED <<now, resolutions>>

Next ==
    \/ Initialize
    \/ CreatePolicy
    \/ ResolveFlight
    \/ DepositToPool
    \/ WithdrawFromPool

Spec == Init /\ [][Next]_vars

OnTimeResolution == [kind |-> "OnTime", minutes |-> 0]

\* The storage resolve_flight(flight_id, OnTime) leaves behind when the
\* flight is indexed: the payout of every policy is 0, so the loop only
\* marks the Unresolved policies of the entry OnTime and drops them from the
\* active index (lines 151-153, 159, 186-192), then the pool is written back
\* as read and the entry is removed (lines 195-197).
SettledOnTime(flight_id) ==
    LET entry == flight_to_policies[flight_id]
        batch == {id \in DOMAIN policies :
                    /\ \E i \in 1..Len(entry) : entry[i] = id
                    /\ policies[id].status = "Unresolved"}
    IN  [keys |-> keys \cup {"LiquidityPool"}
                    \cup (IF \E i \in 1..Len(active_policies) : active_policies[i] \in batch
                          THEN {"ActivePolicies"} ELSE {}),
         admin |-> admin,
         usdc_token |-> usdc_token,
         liquidity_pool |-> IF "LiquidityPool" \in keys THEN liquidity_pool ELSE 0,
         policy_counter |-> policy_counter,
         policies |-> [id \in DOMAIN policies |->
                         IF id \in batch
                         THEN [policies[id] EXCEPT !.status = "OnTime"]
                         ELSE policies[id]],
         active_policies |-> SelectSeq(active_policies, LAMBDA id : id \notin batch),
         flight_to_policies |-> clear_flight(flight_to_policies, flight_id),
         balance |-> balance]

\* The administrator's on-time report of an indexed flight: the call
\* resolve_flight(flight_id, OnTime) signed by the administrator.
AdminResolvesOnTime(flight_id) ==
    /\ flight_id \in DOMAIN flight_to_policies
    /\ \E st \in {SettledOnTime(flight_id)} :
         /\ Persist(st)
         /\ last' = Call("resolve_flight", Ok(st, 0),
                          [auth |-> AdminAddr, flight_id |-> flight_id,
                           resolution |-> OnTimeResolution])
         /\ resolutions' = [resolutions EXCEPT ![flight_id] = @ + 1]
         /\ UNCHANGED now

\* The contract with an administrator who eventually reports every flight.
SpecFair == Spec /\ \A f \in Flights : WF_vars(AdminResolvesOnTime(f))

\* The ledger clock advances between calls (timestamps count days).
Tick ==
    /\ now < MaxTime
    /\ now' = now + 1
    /\ UNCHANGED <<keys, admin, usdc_token, liquidity_pool, policy_counter, policies,
                   active_policies, flight_to_policies, balance, last, resolutions>>

NextClock == Next \/ Tick

\* The contract under a ledger whose time passes.
SpecClock == Init /\ [][NextClock]_vars

\* ------------------------------------------------------------------------
\* State functions used by the properties
\* ------------------------------------------------------------------------
Pool == get_liquidity_pool(Store)

PolicyIds == DOMAIN policies

UnresolvedIds == {id \in PolicyIds : policies[id].status = "Unresolved"}

RECURSIVE CoverageSum(_)
CoverageSum(ids) ==
    IF ids = {} THEN 0
    ELSE LET id == CHOOSE x \in ids : TRUE
         IN  policies[id].coverage_amount + CoverageSum(ids \ {id})

\* The largest id issued so far, 0 when there is none.
MaxIssuedId ==
    IF PolicyIds = {} THEN 0
    ELSE CHOOSE m \in {policies[i].id : i \in PolicyIds} :
           \A i \in PolicyIds : policies[i].id <= m

\* The sum of coverage_amount over the entries of the active index.
RECURSIVE ActiveCoverageUpTo(_)
ActiveCoverageUpTo(n) ==
    IF n = 0 THEN 0
    ELSE ActiveCoverageUpTo(n - 1)
         + (IF active_policies[n] \in PolicyIds
            THEN policies[active_policies[n]].coverage_amount ELSE 0)

ActiveCoverage == ActiveCoverageUpTo(Len(active_policies))

\* Instance storage and token ledger are as before the step.
NothingPersisted ==
    UNCHANGED <<keys, admin, usdc_token, liquidity_pool, policy_counter, policies,
                active_policies, flight_to_policies, balance>>

\* The step is a call of op that took effect.
Succeeded(op) == last'.op = op /\ last'.result = "ok"

\* The step is a call of op that was rejected.
Rejected(op) == last'.op = op /\ last'.result # "ok"

\* ------------------------------------------------------------------------
\* C1: the stored pool balance is at least the sum of coverage_amount over
\* the policies whose status is Unresolved, in every reachable state.
\* ------------------------------------------------------------------------
C1_Solvency == Pool >= CoverageSum(UnresolvedIds)

\* ------------------------------------------------------------------------
\* C2: a successful create_policy raises the pool balance by exactly
\* premium_amount and returns the largest previously issued id plus 1
\* (1 for the first policy).
\* ------------------------------------------------------------------------
C2_CreateAccounting ==
    [][Succeeded("create_policy") =>
         /\ Pool' = Pool + last'.args.premium_amount
         /\ last'.ret = MaxIssuedId + 1]_vars

C2_Witness ==
    /\ last.op = "create_policy" /\ last.result = "ok"
    /\ last.ret = 2
    /\ Pool = 5

\* ------------------------------------------------------------------------
\* C3: payout table.  A policy with coverage C and premium P settled by a
\* successful resolve_flight gets: Cancelled -> status Cancelled, payout P;
\* OnTime -> status OnTime, payout 0; Delayed(m) -> status Delayed, payout
\* 0 if m < 60, floor(C/2) if 60 <= m <= 180, C if m > 180; and every
\* customer receives exactly the stored payouts of the policies settled for
\* them.
\* ------------------------------------------------------------------------
FloorHalf(c) == CHOOSE q \in 0..c : 2 * q <= c /\ c < 2 * (q + 1)

TablePayout(c, p, resolution) ==
    CASE resolution.kind = "Cancelled" -> p
      [] resolution.kind = "OnTime" -> 0
      [] resolution.kind = "Delayed" /\ resolution.minutes < 60 -> 0
      [] resolution.kind = "Delayed" /\ resolution.minutes >= 60
           /\ resolution.minutes <= 180 -> FloorHalf(c)
      [] resolution.kind = "Delayed" /\ resolution.minutes > 180 -> c

\* The policies this step moves out of Unresolved.
SettledInStep == {id \in UnresolvedIds : policies'[id].status # "Unresolved"}

RECURSIVE PayoutSum(_, _)
PayoutSum(pol, ids) ==
    IF ids = {} THEN 0
    ELSE LET id == CHOOSE x \in ids : TRUE
         IN  pol[id].payout_amount + PayoutSum(pol, ids \ {id})

C3_PayoutTable ==
    [][Succeeded("resolve_flight") =>
         /\ \A id \in SettledInStep :
              /\ policies'[id].status = last'.args.resolution.kind
              /\ policies'[id].payout_amount =
                   TablePayout(policies[id].coverage_amount,
                               policies[id].premium_amount, last'.args.resolution)
         /\ \A c \in Customers :
              balance'[c] - balance[c] =
                PayoutSum(policies', {id \in SettledInStep : policies[id].customer = c})]_vars

C3_Witness ==
    /\ last.op = "resolve_flight" /\ last.result = "ok"
    /\ last.args.resolution = [kind |-> "Delayed", minutes |-> 60]
    /\ \E id \in PolicyIds :
         /\ policies[id].flight_id = last.args.flight_id
         /\ policies[id].status = "Delayed"
         /\ policies[id].payout_amount = 1
         /\ balance[policies[id].customer] = 1

\* ------------------------------------------------------------------------
\* C4 (as claimed): a withdrawal of amount > 0 by the administrator is
\* rejected with InsufficientCoverage, pool unchanged, whenever
\* pool - amount is below the coverage of the active index, and is
\* otherwise accepted, lowering the pool by amount and paying amount to the
\* administrator.
\* ------------------------------------------------------------------------
WithdrawalAccepted(r, amount) ==
    /\ r.result = "ok"
    /\ r.st.liquidity_pool = Pool - amount
    /\ r.st.balance[admin] = balance[admin] + amount
    /\ r.st.balance[Contract] = balance[Contract] - amount

WithdrawalRejected(r, kind) ==
    /\ r.result = kind
    /\ Commit(Store, r) = Store

C4_WithdrawAsClaimed ==
    Has(Store, "Admin") =>
      \A amount \in Amounts \ {0} :
        LET r == withdraw_from_pool(Store, admin, amount) IN
        IF Pool - amount < ActiveCoverage
        THEN WithdrawalRejected(r, "InsufficientCoverage")
        ELSE WithdrawalAccepted(r, amount)

\* ------------------------------------------------------------------------
\* C4 (amended): as above, except that a withdrawal passing the coverage
\* test is accepted only when the contract holds at least amount of the
\* asset; when it does not, the transfer fails and the call is rejected
\* with the pool unchanged.  Every withdrawal step that takes effect moves
\* exactly amount, and every rejected one changes nothing.
\* ------------------------------------------------------------------------
C4_WithdrawDecision ==
    Has(Store, "Admin") =>
      \A amount \in Amounts \ {0} :
        LET r == withdraw_from_pool(Store, admin, amount) IN
        IF Pool - amount < ActiveCoverage
        THEN WithdrawalRejected(r, "InsufficientCoverage")
        ELSE IF balance[Contract] >= amount
        THEN WithdrawalAccepted(r, amount)
        ELSE WithdrawalRejected(r, "TransferFailed")

C4_Withdraw ==
    /\ []C4_WithdrawDecision
    /\ [][Succeeded("withdraw_from_pool") =>
            /\ last'.args.amount > 0 /\ last'.args.auth = admin
            /\ Pool - last'.args.amount >= ActiveCoverage
            /\ Pool' = Pool - last'.args.amount
            /\ balance' = [balance EXCEPT ![admin] = @ + last'.args.amount,
                                          ![Contract] = @ - last'.args.amount]]_vars
    /\ [][Rejected("withdraw_from_pool") => NothingPersisted]_vars

C4_Witness ==
    /\ last.op = "withdraw_from_pool" /\ last.result = "ok"
    /\ active_policies # <<>>
    /\ Pool = ActiveCoverage
    /\ withdraw_from_pool(Store, admin, 1).result = "InsufficientCoverage"

\* ------------------------------------------------------------------------
\* C5: resolution is terminal and the payout is written at most once.  A
\* policy's status changes only from Unresolved to OnTime, Delayed or
\* Cancelled; a policy that is not Unresolved keeps its record for ever and
\* its customer is not paid again (a customer's token balance grows in a
\* step by exactly the payouts of the policies settled for them in that
\* step); payout_amount is 0 while the status is Unresolved.
\* ------------------------------------------------------------------------
C5_UnresolvedUnpaid ==
    \A id \in PolicyIds :
      policies[id].status = "Unresolved" => policies[id].payout_amount = 0

C5_TerminalStep ==
    /\ \A id \in PolicyIds :
         /\ id \in DOMAIN policies'
         /\ policies[id].status # "Unresolved" => policies'[id] = policies[id]
         /\ policies'[id].status # policies[id].status =>
              /\ policies[id].status = "Unresolved"
              /\ policies'[id].status \in {"OnTime", "Delayed", "Cancelled"}
         /\ policies'[id].payout_amount # policies[id].payout_amount =>
              policies'[id].status # policies[id].status
    /\ \A c \in Customers :
         balance'[c] > balance[c] =>
           balance'[c] - balance[c] =
             PayoutSum(policies', {id \in SettledInStep : policies[id].customer = c})

C5_ResolutionTerminal == []C5_UnresolvedUnpaid /\ [][C5_TerminalStep]_vars

\* A flight is resolved again after a new policy was created on it: the
\* policy settled by the first resolution is still as it was settled.
C5_Witness ==
    /\ last.op = "resolve_flight" /\ last.result = "ok"
    /\ resolutions[last.args.flight_id] = 2
    /\ \E id \in PolicyIds :
         /\ policies[id].flight_id = last.args.flight_id
         /\ policies[id].status = "Cancelled"
         /\ last.args.resolution.kind = "Delayed"

\* ------------------------------------------------------------------------
\* C6: the active index holds, without duplicates, exactly the ids of the
\* Unresolved policies; an id enters it in the call that creates its policy
\* and leaves it in the call that moves the policy out of Unresolved.
\* ------------------------------------------------------------------------
ActiveIds == {active_policies[i] : i \in 1..Len(active_policies)}

C6_ActiveIsUnresolved ==
    /\ ActiveIds = UnresolvedIds
    /\ \A i, j \in 1..Len(active_policies) :
         active_policies[i] = active_policies[j] => i = j

C6_ActiveStep ==
    /\ \A id \in ActiveIds' \ ActiveIds :
         Succeeded("create_policy") /\ last'.ret = id /\ id \notin PolicyIds
    /\ \A id \in ActiveIds \ ActiveIds' :
         Succeeded("resolve_flight") /\ id \in SettledInStep

C6_ActiveIndex == []C6_ActiveIsUnresolved /\ [][C6_ActiveStep]_vars

C6_Witness ==
    /\ last.op = "resolve_flight" /\ last.result = "ok"
    /\ Len(active_policies) = 1
    /\ Cardinality(PolicyIds) = 2

C8_ResolveEffect ==
    [][Succeeded("resolve_flight") =>
         LET f == last'.args.flight_id
             ids == {flight_to_policies[f][i] : i \in 1..Len(flight_to_policies[f])}
         IN  /\ \A id \in ids :
                  /\ policies'[id].status # "Unresolved"
                  /\ id \notin ActiveIds'
             /\ SettledInStep \subseteq ids
             /\ Pool' = Pool - PayoutSum(policies', SettledInStep)
             /\ \A c \in Customers :
                  balance'[c] - balance[c] =
                    PayoutSum(policies', {id \in SettledInStep : policies[id].customer = c})
             /\ balance'[Contract] = balance[Contract] - PayoutSum(policies', SettledInStep)
             /\ f \notin DOMAIN flight_to_policies']_vars

\* Two policies on one flight, flight Cancelled: both premiums refunded.
C8_Witness ==
    /\ last.op = "resolve_flight" /\ last.result = "ok"
    /\ last.args.resolution.kind = "Cancelled"
    /\ Cardinality(PolicyIds) = 2
    /\ \A id \in PolicyIds :
         /\ policies[id].flight_id = last.args.flight_id
         /\ policies[id].status = "Cancelled"
         /\ policies[id].payout_amount = 1
    /\ policies[1].customer # policies[2].customer
    /\ Pool = 3
    /\ active_policies = <<>>
    /\ DOMAIN flight_to_policies = {}

\* ------------------------------------------------------------------------
\* C9: a rejected create_policy changes nothing.  The checks apply in the
\* order amounts, schedule, liquidity: a call by the customer with
\* premium <= 0 or coverage <= 0 fails with InvalidAmount; with positive
\* amounts and flight_date <= now, with InvalidSchedule; with a future date
\* and coverage above the pool balance, with InsufficientLiquidity.  No
\* call in any of these cases takes effect, whoever authorized it, and a
\* rejected call leaves pool, counter, records, indices and token balances
\* unchanged.
\* ------------------------------------------------------------------------
C9_CreateDecision ==
    \A auth \in Addresses, customer \in Customers, flight_id \in Flights,
       flight_date \in FlightDates, p \in Premiums, c \in Coverages :
      LET r == create_policy(Store, now, auth, customer, flight_id, flight_date, p, c)
      IN  /\ (p <= 0 \/ c <= 0 \/ flight_date <= now \/ c > Pool) => r.result # "ok"
          /\ auth = customer =>
               /\ (p <= 0 \/ c <= 0) => r.result = "InvalidAmount"
               /\ (p > 0 /\ c > 0 /\ flight_date <= now) => r.result = "InvalidSchedule"
               /\ (p > 0 /\ c > 0 /\ flight_date > now /\ c > Pool) =>
                    r.result = "InsufficientLiquidity"

C9_RejectedCreate ==
    /\ []C9_CreateDecision
    /\ [][Rejected("create_policy") => NothingPersisted]_vars

C9_Witness ==
    /\ last.op = "create_policy" /\ last.result = "InsufficientLiquidity"
    /\ PolicyIds # {}
    /\ Pool > 0

\* ------------------------------------------------------------------------
\* C10 (as claimed): for each flight_id at most one resolve_flight call
\* succeeds.
\* ------------------------------------------------------------------------
C10_AtMostOnce == \A f \in Flights : resolutions[f] <= 1

\* ------------------------------------------------------------------------
\* C10 (amended): a successful resolve_flight on a flight_id settles at
\* least one Unresolved policy of that flight and deletes the flight's
\* index entry; while the entry is absent resolve_flight on that flight_id
\* fails with NoPoliciesForFlight, and only a successful create_policy for
\* that flight_id brings the entry back.  So a flight is resolved at most
\* once per batch of policies created for it, and never more often than it
\* has settled policies.
\* ------------------------------------------------------------------------
SettledOf(f) ==
    {id \in PolicyIds : policies[id].flight_id = f /\ policies[id].status # "Unresolved"}

C10_Counted ==
    /\ \A f \in Flights : resolutions[f] <= Cardinality(SettledOf(f))
    /\ Has(Store, "Admin") =>
         \A f \in Flights \ DOMAIN flight_to_policies, resolution \in Resolutions :
           resolve_flight(Store, admin, f, resolution).result = "NoPoliciesForFlight"

C10_Step ==
    /\ Succeeded("resolve_flight") =>
         /\ last'.args.flight_id \in DOMAIN flight_to_policies
         /\ last'.args.flight_id \notin DOMAIN flight_to_policies'
         /\ \E id \in SettledInStep : policies[id].flight_id = last'.args.flight_id
    /\ \A f \in DOMAIN flight_to_policies' \ DOMAIN flight_to_policies :
         Succeeded("create_policy") /\ last'.args.flight_id = f

C10_OncePerBatch == []C10_Counted /\ [][C10_Step]_vars

C10_Witness ==
    /\ last.op = "resolve_flight" /\ last.result = "ok"
    /\ resolutions[last.args.flight_id] = 2
    /\ Cardinality(SettledOf(last.args.flight_id)) = 2
\* ------------------------------------------------------------------------
\* C11: idempotence of re-resolution.  A resolve_flight(f, outcome) call
\* made when every policy ever created for f is already resolved, whoever
\* signs it and whatever the outcome, leaves the pool balance, every token
\* balance and every policy record as they were; in particular a second
\* resolve_flight(f) with no create_policy for f in between.
\* ------------------------------------------------------------------------
PoliciesOf(f) == {id \in PolicyIds : policies[id].flight_id = f}

AllResolved(f) == \A id \in PoliciesOf(f) : policies[id].status # "Unresolved"

C11_NoEffectNow ==
    \A f \in Flights :
      AllResolved(f) =>
        \A auth \in Addresses, resolution \in Resolutions :
          LET after == Commit(Store, resolve_flight(Store, auth, f, resolution))
          IN  /\ get_liquidity_pool(after) = Pool
              /\ after.balance = balance
              /\ after.policies = policies

C11_NoEffectStep ==
    (last'.op = "resolve_flight" /\ \A id \in PolicyIds : id \notin SettledInStep) =>
      /\ Pool' = Pool
      /\ balance' = balance
      /\ policies' = policies

C11_ReResolution == []C11_NoEffectNow /\ [][C11_NoEffectStep]_vars

\* A flight was resolved, nothing is indexed any more, and the last call was
\* a resolve_flight that found no entry.
C11_Witness ==
    /\ last.op = "resolve_flight" /\ last.result = "NoPoliciesForFlight"
    /\ DOMAIN flight_to_policies = {}
    /\ \E f \in Flights :
         /\ resolutions[f] = 1
         /\ PoliciesOf(f) # {}
         /\ AllResolved(f)
         /\ \E id \in PoliciesOf(f) : policies[id].payout_amount > 0
\* ------------------------------------------------------------------------
\* C12: initialization happens exactly once.  The first initialize sets
\* admin, asset id, pool balance = initial_pool, counter = 0 and an empty
\* active index; every later initialize, with any arguments and in any
\* state, fails with AlreadyInitialized and changes nothing; no other
\* operation changes admin or asset id.
\* ------------------------------------------------------------------------
C12_LaterInitializeFails ==
    Has(Store, "Admin") =>
      \A a \in Addresses \cup {Contract}, token \in Tokens \cup {"other"},
         initial_capital \in Capitals \cup {-1, 7} :
        LET r == initialize(Store, a, token, initial_capital)
        IN  r.result = "AlreadyInitialized" /\ Commit(Store, r) = Store

C12_InitializeStep ==
    /\ Succeeded("initialize") =>
         /\ ~Has(Store, "Admin")
         /\ Has(Store', "Admin") /\ admin' = last'.args.admin
         /\ Has(Store', "UsdcToken") /\ usdc_token' = last'.args.usdc_token
         /\ Has(Store', "LiquidityPool") /\ liquidity_pool' = last'.args.initial_capital
         /\ Has(Store', "PolicyCounter") /\ policy_counter' = 0
         /\ Has(Store', "ActivePolicies") /\ active_policies' = <<>>
    /\ Rejected("initialize") =>
         last'.result = "AlreadyInitialized" /\ NothingPersisted
    /\ ~Succeeded("initialize") =>
         /\ admin' = admin /\ usdc_token' = usdc_token
         /\ Has(Store', "Admin") = Has(Store, "Admin")
         /\ Has(Store', "UsdcToken") = Has(Store, "UsdcToken")

C12_InitializedOnce == []C12_LaterInitializeFails /\ [][C12_InitializeStep]_vars

C12_Witness ==
    /\ last.op = "initialize" /\ last.result = "AlreadyInitialized"
    /\ PolicyIds # {}
    /\ admin = AdminAddr /\ usdc_token = "usdc"
    /\ Pool = 4
\* ------------------------------------------------------------------------
\* C13: authorization.  resolve_flight, deposit_to_pool and
\* withdraw_from_pool take effect only when authorized by the administrator
\* set at initialization, create_policy only when authorized by the
\* customer named in the call; a call lacking that authorization fails and
\* changes no state.
\* ------------------------------------------------------------------------
C13_UnauthorizedFails ==
    /\ \A auth \in Addresses \cup {Contract}, customer \in Customers, f \in Flights,
          flight_date \in FlightDates, p \in Premiums, c \in Coverages :
         auth # customer =>
           LET r == create_policy(Store, now, auth, customer, f, flight_date, p, c)
           IN  r.result = "Unauthorized" /\ Commit(Store, r) = Store
    /\ \A auth \in Addresses \cup {Contract} :
         (~Has(Store, "Admin") \/ auth # admin) =>
           /\ \A f \in Flights, resolution \in Resolutions :
                LET r == resolve_flight(Store, auth, f, resolution)
                IN  /\ r.result = IF Has(Store, "Admin") THEN "Unauthorized" ELSE "NotFound"
                    /\ Commit(Store, r) = Store
           /\ \A amount \in Amounts :
                LET d == deposit_to_pool(Store, auth, amount)
                    w == withdraw_from_pool(Store, auth, amount)
                IN  /\ d.result = IF Has(Store, "Admin") THEN "Unauthorized" ELSE "NotFound"
                    /\ w.result = d.result
                    /\ Commit(Store, d) = Store /\ Commit(Store, w) = Store

C13_AuthorizedStep ==
    /\ Succeeded("create_policy") => last'.args.auth = last'.args.customer
    /\ (Succeeded("resolve_flight") \/ Succeeded("deposit_to_pool")
          \/ Succeeded("withdraw_from_pool")) =>
         Has(Store, "Admin") /\ last'.args.auth = admin
    /\ last'.result = "Unauthorized" => NothingPersisted

C13_Authorization == []C13_UnauthorizedFails /\ [][C13_AuthorizedStep]_vars

C13_Witness ==
    /\ last.op = "resolve_flight" /\ last.result = "Unauthorized"
    /\ DOMAIN flight_to_policies # {}
    /\ \E f \in DOMAIN flight_to_policies, resolution \in Resolutions :
         /\ resolve_flight(Store, "c1", f, resolution).result = "Unauthorized"
         /\ resolve_flight(Store, admin, f, resolution).result = "ok"
\* ------------------------------------------------------------------------
\* C14: pool accounting reconciles with custody.  A successful
\* create_policy or deposit_to_pool raises the pool balance and the
\* contract's token balance by the same amount (premium, deposit), a
\* successful resolve_flight or withdraw_from_pool lowers both by the same
\* amount (sum of payouts, withdrawal), nothing else changes either; so
\* from initialize on, pool balance minus custodial balance never changes.
\* ------------------------------------------------------------------------
Custody == balance[Contract]

BothMoveBy(delta) == Pool' = Pool + delta /\ Custody' = Custody + delta

C14_AccountingStep ==
    /\ Succeeded("create_policy") =>
         last'.args.premium_amount > 0 /\ BothMoveBy(last'.args.premium_amount)
    /\ Succeeded("deposit_to_pool") =>
         last'.args.amount > 0 /\ BothMoveBy(last'.args.amount)
    /\ Succeeded("resolve_flight") => BothMoveBy(0 - PayoutSum(policies', SettledInStep))
    /\ Succeeded("withdraw_from_pool") =>
         last'.args.amount > 0 /\ BothMoveBy(0 - last'.args.amount)
    /\ Succeeded("initialize") => Custody' = Custody
    /\ last'.result # "ok" => BothMoveBy(0)
    /\ Has(Store, "Admin") => Pool' - Custody' = Pool - Custody

C14_Reconciles == [][C14_AccountingStep]_vars

C14_Witness ==
    /\ last.op = "deposit_to_pool" /\ last.result = "ok"
    /\ Pool - Custody = 2
    /\ \E id \in PolicyIds : policies[id].payout_amount = 3
    /\ UnresolvedIds # {}
\* ------------------------------------------------------------------------
\* C15: policy ids are unique, strictly increasing and never reused.  The
\* stored records are exactly those with ids 1..counter, each record's id
\* field is its key, the counter goes up by one with every created policy
\* and changes in no other step, and no record is ever deleted.
\* ------------------------------------------------------------------------
C15_IdsAreOneToCounter ==
    /\ PolicyIds = 1..get_total_policies(Store)
    /\ \A id \in PolicyIds : policies[id].id = id

C15_CounterStep ==
    /\ Succeeded("create_policy") =>
         /\ get_total_policies(Store') = get_total_policies(Store) + 1
         /\ last'.ret = get_total_policies(Store')
         /\ last'.ret \notin PolicyIds
         /\ \A id \in PolicyIds : id < last'.ret
    /\ ~Succeeded("create_policy") =>
         get_total_policies(Store') = get_total_policies(Store)
    /\ PolicyIds \subseteq DOMAIN policies'
    /\ \A id \in PolicyIds : policies'[id].id = policies[id].id

C15_PolicyIds == []C15_IdsAreOneToCounter /\ [][C15_CounterStep]_vars

C15_Witness ==
    /\ last.op = "create_policy" /\ last.result = "ok"
    /\ last.ret = 2 /\ get_total_policies(Store) = 2
    /\ policies[1].status # "Unresolved"
    /\ policies[2].flight_id = policies[1].flight_id
\* ------------------------------------------------------------------------
\* C16: resolution deadline.  An attempt to resolve a policy more than 24
\* hours (one day) after its flight_date fails and leaves the policy
\* Unresolved with the pool unchanged: no resolve_flight call settles a
\* policy whose deadline has passed.
\* ------------------------------------------------------------------------
DeadlineWindow == 1

DeadlineExpired(id) == now > policies[id].flight_date + DeadlineWindow

C16_Deadline ==
    [][last'.op = "resolve_flight" =>
         \A id \in UnresolvedIds :
           DeadlineExpired(id) =>
             /\ policies'[id].status = "Unresolved"
             /\ ~(Succeeded("resolve_flight")
                   /\ last'.args.flight_id = policies[id].flight_id)
             /\ Rejected("resolve_flight") => Pool' = Pool]_vars
\* ------------------------------------------------------------------------
\* C17: flight index content.  In every reachable state the index entry of
\* each flight is the increasing (creation order), duplicate-free sequence
\* of exactly the ids of the Unresolved policies of that flight, and it is
\* absent exactly when the flight has no Unresolved policy; hence the loop
\* of resolve_flight never meets an already-resolved policy.
\* ------------------------------------------------------------------------
UnresolvedOf(f) == {id \in UnresolvedIds : policies[id].flight_id = f}

IsIncreasing(vec) ==
    \A i, j \in 1..Len(vec) : i < j => vec[i] < vec[j]

C17_FlightIndex ==
    /\ DOMAIN flight_to_policies \subseteq Flights
    /\ \A f \in Flights :
         LET entry == get_policies_for_flight(Store, f) IN
         /\ f \in DOMAIN flight_to_policies <=> UnresolvedOf(f) # {}
         /\ {entry[i] : i \in 1..Len(entry)} = UnresolvedOf(f)
         /\ IsIncreasing(entry)
         /\ \A i \in 1..Len(entry) : policies[entry[i]].status = "Unresolved"

C17_Witness ==
    /\ policy_counter = 2
    /\ policies[1].flight_id = "F1" /\ policies[1].status = "Unresolved"
    /\ policies[2].flight_id = "F1" /\ policies[2].status = "Unresolved"
    /\ flight_to_policies = [f \in {"F1"} |-> <<1, 2>>]
\* ------------------------------------------------------------------------
\* C18: a failed premium collection aborts creation with no partial state.
\* Whenever a create_policy call passes every earlier check and the customer
\* holds less than premium_amount, the call fails at the transfer and the
\* state it fails in is the state it started from (nothing was written
\* before the transfer); the failed step leaves the pool, the counter, the
\* records, both indexes and the token ledger unchanged.
\* ------------------------------------------------------------------------
C18_TransferPrecedesWrites ==
    \A customer \in Customers, flight_id \in Flights, flight_date \in FlightDates,
       premium_amount \in Premiums, coverage_amount \in Coverages :
      LET r == create_policy(Store, now, customer, customer, flight_id, flight_date,
                             premium_amount, coverage_amount)
      IN  /\ ( /\ premium_amount > 0 /\ coverage_amount > 0
               /\ flight_date > now
               /\ get_liquidity_pool(Store) >= coverage_amount
               /\ Has(Store, "UsdcToken")
               /\ balance[customer] < premium_amount )
             => r.result = "TransferFailed"
          /\ r.result = "TransferFailed" =>
               /\ r.st = Store
               /\ Commit(Store, r) = Store

C18_FailedStep ==
    (last'.op = "create_policy" /\ last'.result = "TransferFailed") =>
       /\ NothingPersisted
       /\ Pool' = Pool
       /\ get_total_policies(Store') = get_total_policies(Store)
       /\ policies' = policies
       /\ active_policies' = active_policies
       /\ flight_to_policies' = flight_to_policies

C18_FailedCollection == []C18_TransferPrecedesWrites /\ [][C18_FailedStep]_vars

C18_Witness ==
    /\ last.op = "create_policy" /\ last.result = "TransferFailed"
    /\ policy_counter = 1
    /\ balance[policies[1].customer] = 0
    /\ active_policies = <<1>>
\* ------------------------------------------------------------------------
\* C19: solvency is preserved by deposits, withdrawals and resolutions with
\* outcome OnTime or Delayed.  If the pool balance is at least the total
\* coverage of the Unresolved policies before a successful deposit_to_pool,
\* withdraw_from_pool or resolve_flight(OnTime or Delayed(m)), it is so
\* after the call as well.
\* ------------------------------------------------------------------------
Solvent == Pool >= CoverageSum(UnresolvedIds)

PreservingCall ==
    \/ Succeeded("deposit_to_pool")
    \/ Succeeded("withdraw_from_pool")
    \/ /\ Succeeded("resolve_flight")
       /\ last'.args.resolution.kind \in {"OnTime", "Delayed"}

C19_SolvencyPreserved ==
    [][(Solvent /\ PreservingCall) => Solvent']_vars

C19_Witness ==
    /\ last.op = "resolve_flight" /\ last.result = "ok"
    /\ last.args.resolution.kind = "Delayed"
    /\ policy_counter = 1
    /\ policies[1].payout_amount = policies[1].coverage_amount
    /\ policies[1].coverage_amount > 0
    /\ Solvent

\* ------------------------------------------------------------------------
\* C20: solvency implies delay payouts are affordable.  In every reachable
\* state where the pool balance is at least the total coverage of the
\* Unresolved policies, resolve_flight(f, Delayed(m)) by the administrator
\* on an indexed flight f does not fail with InsufficientPoolForPayout, for
\* every m and for every order in which the entry's policies are visited.
\* ------------------------------------------------------------------------
DelayedResolutions == {res \in Resolutions : res.kind = "Delayed"}

Orderings(vec) ==
    {p \in [1..Len(vec) -> {vec[i] : i \in 1..Len(vec)}] :
       \A i, j \in 1..Len(vec) : i # j => p[i] # p[j]}

C20_DelayAffordable ==
    Solvent =>
      \A f \in DOMAIN flight_to_policies, res \in DelayedResolutions :
        /\ resolve_flight(Store, admin, f, res).result # "InsufficientPoolForPayout"
        /\ \A p \in Orderings(flight_to_policies[f]) :
             resolve_loop(Store, Pool, p, 1, res).result # "InsufficientPoolForPayout"

C20_Witness ==
    /\ Solvent
    /\ policy_counter = 1
    /\ policies[1].status = "Unresolved"
    /\ Pool = policies[1].coverage_amount
    /\ \E res \in DelayedResolutions :
         /\ compute_payout(policies[1], res) = Pool
         /\ resolve_flight(Store, admin, policies[1].flight_id, res).result
              # "InsufficientPoolForPayout"
    /\ \E res \in DelayedResolutions :
         /\ compute_payout(policies[1], res) > 0
         /\ resolve_flight(Store, admin, policies[1].flight_id, res).result = "ok"
\* ------------------------------------------------------------------------
\* C21: no flight is ever stuck.  In every reachable state, for every flight
\* with an index entry, resolve_flight by the administrator with OnTime or
\* Delayed(m), m < 60, succeeds whatever the pool balance and the contract's
\* token balance are, moves no token, leaves the pool as it was and leaves
\* every policy of the flight resolved; under fair scheduling of such a call
\* every Unresolved policy is eventually resolved.
\* As claimed, every policy of the flight ends with payout 0
\* (C21_AsClaimed).  A flight id can be insured again after its batch was
\* settled, and the policies settled earlier keep the payout they received:
\* payout 0 holds for the policies the call settles, those that were
\* Unresolved before it (C21_NoStuckFlight).
\* ------------------------------------------------------------------------
HarmlessResolutions ==
    {res \in Resolutions :
       res.kind = "OnTime" \/ (res.kind = "Delayed" /\ res.minutes < 60)}

HarmlessCallSucceeds(f, res) ==
    LET r == resolve_flight(Store, admin, f, res) IN
    /\ r.result = "ok"
    /\ r.st.balance = balance
    /\ get_liquidity_pool(r.st) = Pool
    /\ \A id \in PoliciesOf(f) : r.st.policies[id].status # "Unresolved"

C21_AsClaimed ==
    \A f \in DOMAIN flight_to_policies, res \in HarmlessResolutions :
      LET r == resolve_flight(Store, admin, f, res) IN
      /\ HarmlessCallSucceeds(f, res)
      /\ \A id \in PoliciesOf(f) : r.st.policies[id].payout_amount = 0

C21_HarmlessAlwaysSucceeds ==
    \A f \in DOMAIN flight_to_policies, res \in HarmlessResolutions :
      LET r == resolve_flight(Store, admin, f, res) IN
      /\ HarmlessCallSucceeds(f, res)
      /\ UnresolvedOf(f) # {}
      /\ \A id \in UnresolvedOf(f) : r.st.policies[id].payout_amount = 0
      /\ \A id \in PoliciesOf(f) \ UnresolvedOf(f) : r.st.policies[id] = policies[id]

C21_OnTimeReport ==
    \A f \in DOMAIN flight_to_policies :
      /\ admin = AdminAddr
      /\ resolve_flight(Store, AdminAddr, f, OnTimeResolution) = Ok(SettledOnTime(f), 0)

C21_HarmlessStep ==
    (/\ Succeeded("resolve_flight")
     /\ last'.args.resolution \in HarmlessResolutions) =>
       /\ balance' = balance
       /\ Pool' = Pool
       /\ \A id \in SettledInStep : policies'[id].payout_amount = 0

C21_EventuallyResolved ==
    \A id \in 1..MaxPolicies :
      (id \in PolicyIds /\ policies[id].status = "Unresolved")
        ~> (id \in PolicyIds /\ policies[id].status # "Unresolved")

C21_NoStuckFlight ==
    /\ []C21_HarmlessAlwaysSucceeds
    /\ []C21_OnTimeReport
    /\ [][C21_HarmlessStep]_vars
    /\ C21_EventuallyResolved

C21_Witness ==
    /\ last.op = "resolve_flight" /\ last.result = "ok"
    /\ last.args.resolution \in HarmlessResolutions
    /\ policy_counter = 2
    /\ policies[1].payout_amount = policies[1].coverage_amount
    /\ policies[1].payout_amount > 0
    /\ policies[2].status # "Unresolved" /\ policies[2].payout_amount = 0
    /\ Pool < policies[2].coverage_amount
    /\ Custody = 0
\* ------------------------------------------------------------------------
\* C22: the pool balance is never negative.  initialize with
\* initial_capital >= 0 stores a pool balance >= 0, every other step keeps a
\* pool balance >= 0 at >= 0, and so the stored pool balance is >= 0 in
\* every reachable state.
\* ------------------------------------------------------------------------
C22_PoolNonNegative == Pool >= 0

C22_Step ==
    /\ (Succeeded("initialize") /\ last'.args.initial_capital >= 0) => Pool' >= 0
    /\ (~Succeeded("initialize") /\ Pool >= 0) => Pool' >= 0

C22_NeverNegative == []C22_PoolNonNegative /\ [][C22_Step]_vars

C22_Witness ==
    /\ last.op = "withdraw_from_pool" /\ last.result = "InsufficientCoverage"
    /\ Has(Store, "Admin")
    /\ Pool = 0
    /\ Custody > 0
\* ------------------------------------------------------------------------
\* C23: frame of each operation.  A successful resolve_flight(f, outcome)
\* leaves unchanged every policy of another flight, every index entry of
\* another flight, the policy counter, the admin and the asset id; a
\* successful create_policy leaves every existing policy record and every
\* other flight's index entry unchanged; a successful deposit_to_pool or
\* withdraw_from_pool changes no policy record, nor the counter, nor either
\* index.
\* ------------------------------------------------------------------------
OtherEntriesUnchanged(f) ==
    \A g \in Flights \ {f} :
      /\ g \in DOMAIN flight_to_policies' <=> g \in DOMAIN flight_to_policies
      /\ g \in DOMAIN flight_to_policies =>
           flight_to_policies'[g] = flight_to_policies[g]

C23_ResolveFrame ==
    Succeeded("resolve_flight") =>
      /\ \A id \in PolicyIds :
           policies[id].flight_id # last'.args.flight_id => policies'[id] = policies[id]
      /\ DOMAIN policies' = PolicyIds
      /\ OtherEntriesUnchanged(last'.args.flight_id)
      /\ UNCHANGED <<policy_counter, admin, usdc_token>>

C23_CreateFrame ==
    Succeeded("create_policy") =>
      /\ \A id \in PolicyIds : id \in DOMAIN policies' /\ policies'[id] = policies[id]
      /\ OtherEntriesUnchanged(last'.args.flight_id)

C23_PoolFrame ==
    (Succeeded("deposit_to_pool") \/ Succeeded("withdraw_from_pool")) =>
      UNCHANGED <<policies, policy_counter, active_policies, flight_to_policies,
                  admin, usdc_token>>

C23_Frames ==
    [][C23_ResolveFrame /\ C23_CreateFrame /\ C23_PoolFrame]_vars

C23_Witness ==
    /\ last.op = "resolve_flight" /\ last.result = "ok"
    /\ last.args.flight_id = "F1"
    /\ policy_counter = 2
    /\ policies[1].flight_id = "F1" /\ policies[1].status # "Unresolved"
    /\ policies[2].flight_id = "F2" /\ policies[2].status = "Unresolved"
    /\ flight_to_policies = [f \in {"F2"} |-> <<2>>]
\* ------------------------------------------------------------------------
\* C24: nothing works before initialization.  While the contract is not
\* initialized its storage is empty and no token has moved, and every call
\* of create_policy, resolve_flight, deposit_to_pool and withdraw_from_pool,
\* with any arguments and any signer, fails and changes nothing.
\* ------------------------------------------------------------------------
Uninitialized == ~Has(Store, "Admin")

Empty ==
    /\ keys = {}
    /\ get_liquidity_pool(Store) = 0
    /\ get_total_policies(Store) = 0
    /\ policies = << >>
    /\ get_active_policies(Store) = << >>
    /\ flight_to_policies = << >>
    /\ balance = InitialBalance

Fails(r) == r.result # "ok" /\ r.st = Store /\ Commit(Store, r) = Store

C24_EveryCallFails ==
    Uninitialized =>
      /\ Empty
      /\ \A auth \in Addresses :
           /\ \A customer \in Customers, flight_id \in Flights,
                 flight_date \in FlightDates, premium_amount \in Premiums,
                 coverage_amount \in Coverages :
                Fails(create_policy(Store, now, auth, customer, flight_id, flight_date,
                                    premium_amount, coverage_amount))
           /\ \A flight_id \in Flights, resolution \in Resolutions :
                Fails(resolve_flight(Store, auth, flight_id, resolution))
           /\ \A amount \in Amounts :
                /\ Fails(deposit_to_pool(Store, auth, amount))
                /\ Fails(withdraw_from_pool(Store, auth, amount))

C24_UninitializedStep ==
    (Uninitialized /\ last'.op # "initialize") =>
      /\ last'.result # "ok"
      /\ NothingPersisted
      /\ Uninitialized'
      /\ Empty'

C24_BeforeInitialization == []C24_EveryCallFails /\ [][C24_UninitializedStep]_vars

C24_Witness ==
    /\ Uninitialized
    /\ Empty
    /\ last.op = "create_policy"
    /\ last.result = "InsufficientLiquidity"
====
